---- MODULE Spec2Model ----
(***************************************************************************)
(* Model of the service orchestration engine of enterprise-sim:            *)
(* ServiceRegistry (services/registry.py) driving BaseService instances    *)
(* (services/base.py) and the install() overrides of IstioService and      *)
(* ManifestService.                                                        *)
(***************************************************************************)
EXTENDS Integers, Sequences, FiniteSets, TLC

VARIABLES
    instances,   \* ServiceRegistry._instances: name -> [deps, enabled, kind]
    hashOrder,   \* iteration order of Python sets of names in this process
    status,      \* BaseService._status of every instance
    op,          \* the registry call made: "install", "uninstall" or "none"
    pc,          \* position of the call: "idle", "loop" or "steps", then
                 \* "done" (it returned) or "raised" (an exception left it)
    targets,     \* argument of the call in progress
    resolved,    \* outcome of resolve_dependencies in the call in progress
    order,       \* the list the batch loop iterates
    idx,         \* number of loop iterations completed
    success,     \* the local flag of uninstall_services
    result,      \* return value of the call ("none" while it runs)
    calls,       \* calls made on service instances during the call, in order
    timeout,     \* the timeout argument of wait_for_ready, in poll intervals
    elapsed,     \* time.time() - start_time in wait_for_ready, in poll intervals
    step_index,  \* install steps of a manifest service completed by install()
    wait_index   \* wait_for conditions of the current step that were met

vars == <<instances, hashOrder, status, op, pc, targets, resolved, order, idx,
          success, result, calls, timeout, elapsed, step_index, wait_index>>

\* ------------------------------------------------------------------ bounds

\* service ids that may be registered or named in a dependency set
Names == {"A", "B", "C", "D"}

\* most dependency edges in a drawn graph (resolver specification)
MaxEdges == 4

\* longest target list passed to resolve_dependencies (resolver specification)
MaxTargets == 2

\* ------------------------------------------------------------------ helpers

Range(s) == {s[i] : i \in 1..Len(s)}

Reverse(s) == [i \in 1..Len(s) |-> s[Len(s) + 1 - i]]

Perms == {p \in [1..Cardinality(Names) -> Names] : Range(p) = Names}

\* the set iteration orders a drawn process runs under: two opposite orders;
\* the service ids are interchangeable, so every other order is one of
\* these up to a renaming of the ids
HashOrders == {<<"A", "B", "C", "D">>, <<"D", "C", "B", "A">>}

SeqsUpTo(S, n) == UNION {[1..k -> S] : k \in 0..n}

\* position of x in sequence s (0 when absent)
IndexOf(s, x) == IF x \in Range(s) THEN CHOOSE i \in 1..Len(s) : s[i] = x ELSE 0

\* `for x in some_set`: CPython visits a set of strings in hash-slot order,
\* which the per-process hash seed fixes; h is that order over all names
IterSet(S, h) == SelectSeq(h, LAMBDA x : x \in S)

\* class ServiceStatus
ServiceStatus == {"NOT_INSTALLED", "INSTALLING", "INSTALLED", "FAILED",
                  "UPGRADING", "UNINSTALLING"}

\* ------------------------------------------------- resolve_dependencies

NoResolution == [err |-> "unset", order |-> <<>>, named |-> <<>>]

\* _topological_sort, lines 112-120: the keys of in_degree in insertion order
\* (a dict iterates in insertion order): each node of the graph, then its
\* dependencies as the set iteration meets them
RECURSIVE DegreeKeys(_, _, _, _)
DegreeKeys(inst, keys, h, acc) ==
    IF keys = <<>> THEN acc
    ELSE LET node == Head(keys)
             seen == Range(acc)
             own  == IF node \in seen THEN <<>> ELSE <<node>>
             deps == SelectSeq(IterSet(inst[node].deps, h),
                               LAMBDA d : d \notin seen /\ d # node)
         IN  DegreeKeys(inst, Tail(keys), h, acc \o own \o deps)

\* Kahn's loop with the `if in_degree[dependent] == 0` test dropped: every
\* dependent is queued as soon as one of its dependencies is emitted
RECURSIVE KahnNoZeroTest(_, _, _, _, _, _)
KahnNoZeroTest(inst, graphKeys, h, queue, deg, res) ==
    IF queue = <<>> \/ Len(res) > 2 * Cardinality(Names) THEN [res |-> res, deg |-> deg]
    ELSE LET node == Head(queue)
             dependents == IterSet({n \in graphKeys : node \in inst[n].deps}, h)
             deg2  == [n \in DOMAIN deg |->
                          IF n \in Range(dependents) THEN deg[n] - 1 ELSE deg[n]]
         IN  KahnNoZeroTest(inst, graphKeys, h, Tail(queue) \o dependents, deg2,
                            Append(res, node))

\* _topological_sort, lines 125-132: Kahn's loop; queue is a FIFO list,
\* deg the in_degree dict, graphKeys the nodes of the graph
RECURSIVE Kahn(_, _, _, _, _, _)
Kahn(inst, graphKeys, h, queue, deg, res) ==
    IF queue = <<>> THEN [res |-> res, deg |-> deg]
    ELSE LET node == Head(queue)
             \* adjacency[node]: the nodes of the graph that depend on node
             dependents == IterSet({n \in graphKeys : node \in inst[n].deps}, h)
             deg2  == [n \in DOMAIN deg |->
                          IF n \in Range(dependents) THEN deg[n] - 1 ELSE deg[n]]
             ready == SelectSeq(dependents, LAMBDA n : deg2[n] = 0)
         IN  Kahn(inst, graphKeys, h, Tail(queue) \o ready, deg2, Append(res, node))

\* _topological_sort reporting every node of the graph as a cycle node
\* (the `if degree > 0` filter of line 135 dropped)
topological_sort_all_named(inst, keys, h) ==
    LET degKeys == DegreeKeys(inst, keys, h, <<>>)
        in_degree == [n \in Range(degKeys) |->
                         IF n \in Range(keys) THEN Cardinality(inst[n].deps) ELSE 0]
        queue == SelectSeq(degKeys, LAMBDA n : in_degree[n] = 0)
        k == Kahn(inst, Range(keys), h, queue, in_degree, <<>>)
    IN  IF Len(k.res) # Len(degKeys)
        THEN [err |-> "cycle", order |-> <<>>, named |-> degKeys]
        ELSE [err |-> "none", order |-> k.res, named |-> <<>>]

\* _topological_sort(graph): graph is given by its keys in insertion order,
\* graph[k] = inst[k].deps
topological_sort(inst, keys, h) ==
    LET degKeys == DegreeKeys(inst, keys, h, <<>>)
        in_degree == [n \in Range(degKeys) |->
                         IF n \in Range(keys) THEN Cardinality(inst[n].deps) ELSE 0]
        queue == SelectSeq(degKeys, LAMBDA n : in_degree[n] = 0)
        k == Kahn(inst, Range(keys), h, queue, in_degree, <<>>)
    IN  IF Len(k.res) # Len(degKeys)
        THEN [err |-> "cycle", order |-> <<>>,
              named |-> SelectSeq(degKeys, LAMBDA n : k.deg[n] > 0)]
        ELSE [err |-> "none", order |-> k.res, named |-> <<>>]

\* resolve_dependencies, lines 84-101: the closure walk; graphKeys are the
\* keys of dependency_graph in insertion order, all is all_services
RECURSIVE Collect(_, _, _, _, _)
Collect(inst, to_process, graphKeys, all, h) ==
    IF to_process = <<>> THEN [err |-> "none", keys |-> graphKeys, named |-> <<>>]
    ELSE LET service_name == Head(to_process)
         IN  IF service_name \in Range(graphKeys)
             THEN Collect(inst, Tail(to_process), graphKeys, all, h)
             ELSE IF service_name \notin DOMAIN inst
             THEN [err |-> "not_found", keys |-> graphKeys, named |-> <<service_name>>]
             ELSE LET deps == IterSet(inst[service_name].deps, h)
                      new  == SelectSeq(deps, LAMBDA d : d \notin all)
                  IN  Collect(inst, Tail(to_process) \o new,
                              Append(graphKeys, service_name),
                              all \cup inst[service_name].deps, h)

\* a resolver that does not follow the dependencies of disabled services
resolve_dependencies_enabled_only(inst, target_services, h) ==
    LET pruned == [n \in DOMAIN inst |->
                      IF inst[n].enabled THEN inst[n]
                      ELSE [inst[n] EXCEPT !.deps = {}]]
        c == Collect(pruned, target_services, <<>>, Range(target_services), h)
    IN  IF target_services = <<>> \/ c.err # "none"
        THEN [err |-> c.err, order |-> <<>>, named |-> c.named]
        ELSE topological_sort(pruned, c.keys, h)

\* ServiceRegistry.resolve_dependencies(target_services)
resolve_dependencies(inst, target_services, h) ==
    IF target_services = <<>> THEN [err |-> "none", order |-> <<>>, named |-> <<>>]
    ELSE LET c == Collect(inst, target_services, <<>>, Range(target_services), h)
         IN  IF c.err # "none"
             THEN [err |-> c.err, order |-> <<>>, named |-> c.named]
             ELSE topological_sort(inst, c.keys, h)

\* ------------------------------------------------------ specification of
\* the resolver alone: a registry holding any bounded dependency graph, on
\* which resolve_dependencies is called with any bounded target list

EdgeCount(d, R) == Cardinality({e \in R \X Names : e[2] \in d[e[1]]})

\* a service instance as the resolver sees it
PlainInstance(deps) == [deps |-> deps, enabled |-> TRUE, kind |-> "base"]

InitResolve ==
    /\ \E R \in SUBSET Names :
         \E d \in [R -> SUBSET Names] :
            /\ \A n \in R : n \notin d[n]
            /\ EdgeCount(d, R) <= MaxEdges
            /\ instances = [n \in R |-> PlainInstance(d[n])]
    /\ hashOrder \in HashOrders
    /\ status = [n \in DOMAIN instances |-> "NOT_INSTALLED"]
    /\ op = "none"
    /\ pc = "idle"
    /\ targets = <<>>
    /\ resolved = NoResolution
    /\ order = <<>>
    /\ idx = 0
    /\ success = TRUE
    /\ result = "none"
    /\ calls = <<>>
    /\ timeout = 0
    /\ elapsed = 0
    /\ step_index = 0
    /\ wait_index = 0

ResolveCall ==
    /\ pc = "idle"
    /\ resolved = NoResolution
    /\ \E t \in SeqsUpTo(Names, MaxTargets) :
         /\ targets' = t
         /\ resolved' = resolve_dependencies(instances, t, hashOrder)
    /\ UNCHANGED <<timeout, elapsed>>
    /\ UNCHANGED <<instances, hashOrder, status, op, pc, order, idx, success,
                   result, calls>>
    /\ UNCHANGED <<step_index, wait_index>>

NextResolve == ResolveCall

SpecResolve == InitResolve /\ [][NextResolve]_vars

\* ------------------------------------------------------ service classes

\* the concrete classes behind an instance, as far as the registry can tell
\* them apart: OpenEBSService inherits BaseService.install and guards neither
\* uninstall() nor get_health() with try/except; IstioService and
\* ManifestService override install()
Kinds == {"openebs", "istio", "manifest"}

\* install() writes _status: BaseService.install does, the overrides of
\* IstioService and ManifestService do not
InstallWritesStatus(kind) == kind \in {"base", "openebs", "certmanager"}

\* what is_installed() can answer: ManifestService has no helm_chart and
\* inherits _is_installed_custom, which returns False
IsInstalledAnswers(kind) == IF kind = "manifest" THEN {FALSE} ELSE BOOLEAN

\* how wait_for_ready(600) can end: healthy in time, timed out, or an
\* exception of get_health() passing through it
WaitOutcomes(kind) ==
    IF kind = "istio" THEN {"true", "false"} ELSE {"true", "false", "raise"}

\* how uninstall() can end: IstioService.uninstall turns an exception into
\* False; OpenEBSService.uninstall and ManifestService.uninstall let it pass
UninstallOutcomes(kind) ==
    IF kind = "istio" THEN {"true", "false"} ELSE {"true", "false", "raise"}

\* an install() that writes INSTALLED on success and nothing on failure
StatusAfterInstall_success_only(kind, old, ok) ==
    IF InstallWritesStatus(kind) /\ ok THEN "INSTALLED" ELSE old

\* _status after install() returned ok (TRUE) or not
StatusAfterInstall(kind, old, ok) ==
    IF InstallWritesStatus(kind)
    THEN (IF ok THEN "INSTALLED" ELSE "FAILED")
    ELSE old

Call(fn, svc, ret) == [fn |-> fn, svc |-> svc, ret |-> ret]

Bool(b) == IF b THEN "true" ELSE "false"

\* a DependencyError that is caught and then ignored
dependency_error_ignored(r) == FALSE

\* install_services lines 183-185, uninstall_services lines 214-216:
\* resolve_dependencies raised DependencyError
dependency_error(r) == r.err # "none"

\* the is_installed() answer ignored
already_installed_ignored(installed) == FALSE

\* install_services line 159: `if service.is_installed(): continue`
already_installed(installed) == installed

\* a failed install() that does not end the batch
install_failed_ignored(ok) == FALSE

\* install_services line 166: `if not service.install(): return False`
install_failed(ok) == ~ok

\* a batch that resets the services it went through before it gives up
abort_batch_rolled_back(st, earlier) ==
    [n \in DOMAIN st |-> IF n \in earlier THEN "NOT_INSTALLED" ELSE st[n]]

\* install_services lines 166-168 and 172-175: `return False` and nothing
\* else, whatever the services earlier in install_order went through
abort_batch(st, earlier) == st

\* an exception of uninstall() taken for a False return
uninstall_raise_as_false(out) == FALSE

\* uninstall_services lines 217-219: an exception of service.uninstall()
\* leaves the loop through `except Exception`
uninstall_raised(out) == out = "raise"

\* the install order used for uninstalling
uninstall_order_not_reversed(install_order) == install_order

\* uninstall_services line 194: reversed(resolve_dependencies(...))
uninstall_order(install_order) == Reverse(install_order)

\* ------------------------------------------- install_services / uninstall

\* ids a registry of the batch specification may hold
BatchIds == {"A", "B", "C"}

\* most dependency edges in a registry of the batch specification
MaxBatchEdges == 2

\* longest target list of a batch call
MaxBatchTargets == 1

\* the set iteration order of the batch specification: its Init draws every
\* dependency graph, class and enabled flag over interchangeable ids, so a
\* run under any other order is a run under this one with the ids renamed
BatchHashOrder == <<"A", "B", "C", "D">>

Init ==
    /\ \E R \in SUBSET BatchIds :
         \E d \in [R -> SUBSET BatchIds], e \in [R -> BOOLEAN], k \in [R -> Kinds] :
            /\ \A n \in R : n \notin d[n]
            /\ EdgeCount(d, R) <= MaxBatchEdges
            /\ instances = [n \in R |-> [deps |-> d[n], enabled |-> e[n], kind |-> k[n]]]
    /\ hashOrder = BatchHashOrder
    /\ status = [n \in DOMAIN instances |-> "NOT_INSTALLED"]
    /\ op = "none"
    /\ pc = "idle"
    /\ targets = <<>>
    /\ resolved = NoResolution
    /\ order = <<>>
    /\ idx = 0
    /\ success = TRUE
    /\ result = "none"
    /\ calls = <<>>
    /\ timeout = 0
    /\ elapsed = 0
    /\ step_index = 0
    /\ wait_index = 0

\* install_services, lines 142-145 and 183-185: resolve; a DependencyError
\* returns False
install_services_begin(service_names) ==
    /\ pc = "idle"
    /\ LET r == resolve_dependencies(instances, service_names, hashOrder)
       IN  /\ resolved' = r
           /\ IF dependency_error(r)
              THEN /\ pc' = "done" /\ order' = order /\ result' = FALSE
              ELSE /\ pc' = "loop" /\ order' = r.order /\ result' = result
    /\ op' = "install"
    /\ targets' = service_names
    /\ UNCHANGED <<timeout, elapsed>>
    /\ UNCHANGED <<instances, hashOrder, status, idx, success, calls>>
    /\ UNCHANGED <<step_index, wait_index>>

\* install_services, lines 148-178: one pass of the loop body for the next
\* service of install_order; installed, ok and ready are what is_installed(),
\* install() and wait_for_ready() answer if they are called
install_services_iteration ==
    /\ pc = "loop" /\ op = "install" /\ idx < Len(order)
    /\ LET service_name == order[idx + 1]
           service == instances[service_name]
       IN  \E installed \in IsInstalledAnswers(service.kind), ok \in BOOLEAN,
              ready \in WaitOutcomes(service.kind) :
             IF ~service.enabled
             THEN /\ idx' = idx + 1
                  /\ UNCHANGED <<status, pc, result, calls>>
             ELSE LET c1 == Append(calls, Call("is_installed", service_name,
                                               Bool(installed)))
                      c2 == Append(c1, Call("install", service_name, Bool(ok)))
                      c3 == Append(c2, Call("wait_for_ready", service_name, ready))
                  IN  IF already_installed(installed)
                      THEN /\ idx' = idx + 1
                           /\ calls' = c1
                           /\ UNCHANGED <<status, pc, result>>
                      ELSE
                      LET st == [status EXCEPT ![service_name] =
                                    StatusAfterInstall(service.kind, @, ok)]
                          earlier == Range(SubSeq(order, 1, idx))
                      IN  IF install_failed(ok)
                          THEN /\ calls' = c2 /\ pc' = "done" /\ result' = FALSE
                               /\ idx' = idx
                               /\ status' = abort_batch(st, earlier)
                          ELSE IF ready # "true"
                          THEN /\ calls' = c3 /\ pc' = "done" /\ result' = FALSE
                               /\ idx' = idx
                               /\ status' = abort_batch(st, earlier)
                          ELSE /\ calls' = c3 /\ idx' = idx + 1
                               /\ status' = st
                               /\ UNCHANGED <<pc, result>>
    /\ UNCHANGED <<timeout, elapsed>>
    /\ UNCHANGED <<instances, hashOrder, op, targets, resolved, order, success>>
    /\ UNCHANGED <<step_index, wait_index>>

\* install_services, lines 180-181: the loop is exhausted
install_services_return ==
    /\ pc = "loop" /\ op = "install" /\ idx = Len(order)
    /\ pc' = "done"
    /\ result' = TRUE
    /\ UNCHANGED <<timeout, elapsed>>
    /\ UNCHANGED <<instances, hashOrder, status, op, targets, resolved, order,
                   idx, success, calls>>
    /\ UNCHANGED <<step_index, wait_index>>

\* uninstall_services, lines 192-198 and 214-216
uninstall_services_begin(service_names) ==
    /\ pc = "idle"
    /\ LET r == resolve_dependencies(instances, service_names, hashOrder)
       IN  /\ resolved' = r
           /\ IF dependency_error(r)
              THEN /\ pc' = "done" /\ order' = order /\ result' = FALSE
              ELSE /\ pc' = "loop" /\ order' = uninstall_order(r.order)
                   /\ result' = result
    /\ op' = "uninstall"
    /\ success' = TRUE
    /\ targets' = service_names
    /\ UNCHANGED <<timeout, elapsed>>
    /\ UNCHANGED <<instances, hashOrder, status, idx, calls>>
    /\ UNCHANGED <<step_index, wait_index>>

\* uninstall_services, lines 199-210 and 217-219: one pass of the loop body;
\* an exception leaving uninstall() ends the call with False
uninstall_services_iteration ==
    /\ pc = "loop" /\ op = "uninstall" /\ idx < Len(order)
    /\ LET service_name == order[idx + 1]
           service == instances[service_name]
       IN  \E out \in UninstallOutcomes(service.kind) :
             /\ calls' = Append(calls, Call("uninstall", service_name, out))
             /\ IF uninstall_raised(out)
                THEN /\ pc' = "done" /\ result' = FALSE
                     /\ UNCHANGED <<idx, success>>
                ELSE /\ idx' = idx + 1
                     /\ success' = (success /\ out = "true")
                     /\ UNCHANGED <<pc, result>>
    /\ UNCHANGED <<timeout, elapsed>>
    /\ UNCHANGED <<instances, hashOrder, status, op, targets, resolved, order>>
    /\ UNCHANGED <<step_index, wait_index>>

\* uninstall_services, line 212
uninstall_services_return ==
    /\ pc = "loop" /\ op = "uninstall" /\ idx = Len(order)
    /\ pc' = "done"
    /\ result' = success
    /\ UNCHANGED <<timeout, elapsed>>
    /\ UNCHANGED <<instances, hashOrder, status, op, targets, resolved, order,
                   idx, success, calls>>
    /\ UNCHANGED <<step_index, wait_index>>

Next ==
    \/ \E t \in SeqsUpTo(BatchIds, MaxBatchTargets) : install_services_begin(t)
    \/ install_services_iteration
    \/ install_services_return
    \/ \E t \in SeqsUpTo(BatchIds, MaxBatchTargets) : uninstall_services_begin(t)
    \/ uninstall_services_iteration
    \/ uninstall_services_return

Spec == Init /\ [][Next]_vars

\* ------------------------------------------------ graph notions the claims
\* are stated in (not part of the program)

\* the services reachable from S along declared dependencies, S included
RECURSIVE ClosureOf(_, _)
ClosureOf(inst, S) ==
    LET nxt == S \cup UNION {inst[n].deps : n \in S \cap DOMAIN inst}
    IN  IF nxt = S THEN S ELSE ClosureOf(inst, nxt)

\* n lies on a dependency cycle
OnCycle(inst, n) == n \in DOMAIN inst /\ n \in ClosureOf(inst, inst[n].deps)

\* the closure of the targets of the call in progress
TargetClosure == ClosureOf(instances, Range(targets))

Resolved == resolved.err # "unset"

AllRegistered == TargetClosure \subseteq DOMAIN instances

HasCycle == \E n \in TargetClosure : OnCycle(instances, n)

NoDuplicates(s) == \A i, j \in 1..Len(s) : s[i] = s[j] => i = j

\* C1: for an acyclic graph over registered instances and a non-empty target
\* list, resolve_dependencies returns each service of the transitive
\* dependency closure of the targets exactly once and nothing else, every
\* dependency strictly before each service that depends on it.
C1_TopologicalOrder ==
    (Resolved /\ targets # <<>> /\ AllRegistered /\ ~HasCycle) =>
        /\ resolved.err = "none"
        /\ Range(resolved.order) = TargetClosure
        /\ NoDuplicates(resolved.order)
        /\ \A n \in TargetClosure : \A d \in instances[n].deps :
              IndexOf(resolved.order, d) < IndexOf(resolved.order, n)

\* the diamond A, B->A, C->A, D->{B,C} resolved for [D]: A first, D last
C1_Witness ==
    /\ Resolved /\ targets = <<"D">>
    /\ DOMAIN instances = Names
    /\ instances["A"].deps = {} /\ instances["B"].deps = {"A"}
    /\ instances["C"].deps = {"A"} /\ instances["D"].deps = {"B", "C"}
    /\ Len(resolved.order) = 4
    /\ resolved.order[1] = "A" /\ resolved.order[4] = "D"

\* C2 as stated, on closures whose services are all registered: whenever the
\* closure contains a cycle, resolve_dependencies fails and the services
\* named in the error are exactly the services that lie on a cycle.
C2_NamesExactlyCycleMembers ==
    (Resolved /\ AllRegistered /\ HasCycle) =>
        /\ resolved.err = "cycle"
        /\ Range(resolved.named) = {n \in TargetClosure : OnCycle(instances, n)}

\* C2 amended: when the closure is fully registered and contains a cycle,
\* resolve_dependencies fails naming exactly the closure services that lie
\* on a cycle or transitively depend on a service that does; when the
\* closure names an unregistered service it fails naming one such service.
C2_NamesCycleAndDependents ==
    /\ (Resolved /\ AllRegistered /\ HasCycle) =>
          /\ resolved.err = "cycle"
          /\ NoDuplicates(resolved.named)
          /\ Range(resolved.named) =
                {n \in TargetClosure :
                    \E m \in ClosureOf(instances, {n}) : OnCycle(instances, m)}
    /\ (Resolved /\ ~AllRegistered) =>
          /\ resolved.err = "not_found"
          /\ Len(resolved.named) = 1
          /\ resolved.named[1] \in TargetClosure \ DOMAIN instances

\* a cycle error that names a service which is on no cycle
C2_Witness ==
    /\ resolved.err = "cycle"
    /\ \E n \in Range(resolved.named) : ~OnCycle(instances, n)
    /\ \E n \in Range(resolved.named) : OnCycle(instances, n)

\* C4: for fixed registered instances and a fixed target list, every call of
\* resolve_dependencies returns the same list, whatever set iteration order
\* the process runs under.
C4_DeterministicOrder ==
    resolved.err = "none" =>
        \A h \in Perms :
            resolve_dependencies(instances, targets, h).order = resolved.order

\* ------------------------------------------------ notions of the batch claims

SvcSeq(cs) == [i \in 1..Len(cs) |-> cs[i].svc]

IsPrefix(a, b) == Len(a) <= Len(b) /\ \A i \in 1..Len(a) : a[i] = b[i]

\* fn was called on service n during the call (with answer ret)
Called(fn, n) == \E i \in 1..Len(calls) : calls[i].fn = fn /\ calls[i].svc = n

CalledWith(fn, n, ret) == Call(fn, n, ret) \in Range(calls)

\* C3: if the closure holds a cycle or an unregistered service, the
\* DependencyError ends the whole batch: install_services and
\* uninstall_services return False and no install(), is_installed() or
\* uninstall() has been invoked on any service.
C3_DependencyErrorFatal ==
    (op # "none" /\ targets # <<>> /\ (HasCycle \/ ~AllRegistered)) =>
        pc = "done" /\ result = FALSE /\ calls = <<>>

\* an install batch over a fully registered closure with a cycle has returned
C3_Witness ==
    op = "install" /\ pc = "done" /\ AllRegistered /\ HasCycle

\* C5: uninstall_services invokes uninstall() in exactly the reverse of the
\* order resolve_dependencies returns, so that a service is uninstalled only
\* after every service of the closure that depends on it.
C5_UninstallReverseOrder ==
    (op = "uninstall" /\ resolved.err = "none") =>
        /\ \A i \in 1..Len(calls) : calls[i].fn = "uninstall"
        /\ IsPrefix(SvcSeq(calls), Reverse(resolved.order))
        /\ (pc = "done" /\ \A i \in 1..Len(calls) : calls[i].ret # "raise") =>
              SvcSeq(calls) = Reverse(resolved.order)
        /\ \A i \in 1..Len(calls) : \A m \in TargetClosure :
              calls[i].svc \in instances[m].deps =>
                  \E j \in 1..(i - 1) : calls[j].svc = m

\* a chain of three services has been uninstalled, dependents first
C5_Witness ==
    /\ op = "uninstall" /\ pc = "done" /\ Len(calls) = 3
    /\ calls[3].svc \in instances[calls[2].svc].deps
    /\ calls[2].svc \in instances[calls[1].svc].deps

\* C6: install_services is fail-fast: once install() of a service fails or
\* its readiness wait does not succeed, nothing further is invoked on any
\* service and the batch returns False.
C6_InstallFailFast ==
    op = "install" =>
        \A i \in 1..Len(calls) :
            (calls[i].fn \in {"install", "wait_for_ready"} /\ calls[i].ret # "true") =>
                i = Len(calls) /\ pc = "done" /\ result = FALSE

\* the install of a service failed while a dependent of it was still to come
C6_Witness ==
    /\ op = "install" /\ calls # <<>>
    /\ calls[Len(calls)] \in {Call("install", n, "false") : n \in BatchIds}
    /\ \E k \in (idx + 2)..Len(order) :
          calls[Len(calls)].svc \in instances[order[k]].deps

\* C7: when the uninstall of one service of the batch fails, uninstall() is
\* still invoked on every other service of the reversed closure and the
\* batch returns False.
C7_UninstallBestEffort ==
    (op = "uninstall" /\ pc = "done" /\ resolved.err = "none"
        /\ \E i \in 1..Len(calls) : calls[i].ret # "true") =>
        /\ result = FALSE
        /\ \A n \in Range(resolved.order) : Called("uninstall", n)

\* C8, for the dependencies the call installs itself: install() of a service
\* begins only after each such dependency has status INSTALLED and its
\* readiness wait has completed.
C8_DependenciesInstalledFirst ==
    op = "install" =>
        \A i \in 1..Len(calls) : calls[i].fn = "install" =>
            \A d \in instances[calls[i].svc].deps :
                (\E j \in 1..(i - 1) : calls[j].fn = "install" /\ calls[j].svc = d) =>
                    /\ status[d] = "INSTALLED"
                    /\ \E j \in 1..(i - 1) : calls[j] = Call("wait_for_ready", d, "true")

\* C9: when install_services returns True, every service of the order that
\* was not skipped has status INSTALLED and its wait_for_ready returned True.
C9_SuccessMeansInstalled ==
    (op = "install" /\ pc = "done" /\ result = TRUE) =>
        \A n \in Range(order) :
            (instances[n].enabled /\ CalledWith("is_installed", n, "false")) =>
                /\ status[n] = "INSTALLED"
                /\ CalledWith("wait_for_ready", n, "true")

\* C10: a service whose is_installed() returns True is skipped: neither
\* install() nor wait_for_ready() is invoked on it and its status keeps the
\* value it had when the call began; the batch returns True unless an
\* install or a readiness wait fails; in particular, when every enabled
\* service of the order is already installed, nothing is installed and the
\* batch returns True.
C10_AlreadyInstalledSkipped ==
    op = "install" =>
        /\ \A n \in DOMAIN instances : CalledWith("is_installed", n, "true") =>
              /\ ~Called("install", n) /\ ~Called("wait_for_ready", n)
              /\ status[n] = "NOT_INSTALLED"
        /\ (pc = "done" /\ resolved.err = "none"
               /\ \A i \in 1..Len(calls) :
                     calls[i].fn \in {"install", "wait_for_ready"} => calls[i].ret = "true")
              => result = TRUE
        /\ (pc = "done" /\ resolved.err = "none"
               /\ \A n \in Range(order) :
                     instances[n].enabled => CalledWith("is_installed", n, "true"))
              => /\ result = TRUE
                 /\ \A i \in 1..Len(calls) : calls[i].fn = "is_installed"

\* a batch that skipped an installed service, installed another and succeeded
C10_Witness ==
    /\ op = "install" /\ pc = "done" /\ result = TRUE
    /\ \E n, m \in DOMAIN instances :
          /\ CalledWith("is_installed", n, "true")
          /\ CalledWith("install", m, "true")
          /\ n \in instances[m].deps

\* ----------------------------------------------------- service lifecycle
\* One registry whose instances are driven through create_instance,
\* install(), uninstall(), upgrade(), is_installed() and wait_for_ready(),
\* one call at a time; a call is split at the points where it hands control
\* to a collaborator, so the states in between are what a status read made
\* during the call would see.

\* no call is in progress
Idle == pc \in {"idle", "done", "raised"}

\* ids a registry of the lifecycle specification may hold
ServiceIds == {"A"}

\* most install steps a manifest definition declares
MaxSteps == 2

\* largest timeout passed to wait_for_ready, in poll intervals of 10 s
MaxTimeout == 2

\* the classes of the lifecycle specification: "base" is a class that keeps
\* every lifecycle method of BaseService; "certmanager" is
\* CertManagerService, which inherits install() and overrides
\* post_install_tasks and uninstall(); the others are as in Kinds
LifecycleKinds == {"base", "openebs", "istio", "manifest", "certmanager"}

\* ServiceConfig, as far as the lifecycle reads it
Configs == [enabled : BOOLEAN]

\* BaseService.__init__ as run by the class or factory registered for the
\* name; nsteps is the length of definition.install of a manifest service
ServiceInstance(config, kind, nsteps) ==
    [deps |-> {}, enabled |-> config.enabled, kind |-> kind, nsteps |-> nsteps]

\* how a call to a collaborator, or to a hook that calls one, can end
StepOutcomes == {"true", "false", "raise"}

\* the test of create_instance line 39 skipped
has_instance_never(insts, service_name) == FALSE

\* create_instance line 39: `if service_name in self._instances`
has_instance(insts, service_name) == service_name \in DOMAIN insts

\* create_instance, lines 39-54: the existing instance is returned as it is;
\* otherwise the class registered under the name (k) builds one, and a name
\* that was never registered raises ValueError
create_instance(service_name, config) ==
    /\ Idle
    /\ \E k \in LifecycleKinds \cup {"unregistered"}, ns \in 0..MaxSteps :
         /\ (k # "manifest") => ns = 0
         /\ IF has_instance(instances, service_name)
            THEN /\ pc' = "done" /\ result' = "instance"
                 /\ UNCHANGED <<instances, status>>
            ELSE IF k = "unregistered"
            THEN /\ pc' = "raised" /\ result' = "none"
                 /\ UNCHANGED <<instances, status>>
            ELSE /\ pc' = "done" /\ result' = "instance"
                 /\ instances' = (service_name :> ServiceInstance(config, k, ns))
                                     @@ instances
                 /\ status' = (service_name :> "NOT_INSTALLED") @@ status
    /\ op' = "create_instance"
    /\ targets' = <<service_name, config>>
    /\ order' = <<>>
    /\ idx' = 0
    /\ success' = TRUE
    /\ calls' = <<>>
    /\ UNCHANGED <<hashOrder, resolved, timeout, elapsed>>
    /\ UNCHANGED <<step_index, wait_index>>

\* install() starts with `if not self.config.enabled: return True`:
\* BaseService.install and IstioService.install do, ManifestService.install
\* does not
InstallChecksEnabled(kind) == kind # "manifest"

\* the steps install() runs, in the order it runs them
install_steps(self) ==
    CASE self.kind = "manifest" -> [i \in 1..self.nsteps |-> ToString(i)]
      [] self.kind = "istio" ->
            <<"_install_base", "_install_istiod", "_install_gateway">>
      [] self.kind = "certmanager" ->
            <<"validate_prerequisites", "create_namespace",
              "_install_helm_chart", "wait_for_deployment", "_verify_crds",
              "apply_manifest">>
      [] OTHER ->
            <<"validate_prerequisites", "create_namespace",
              "_install_helm_chart", "post_install_tasks">>

\* a step whose failure install() does not act on:
\* CertManagerService.post_install_tasks only prints a warning when
\* _test_webhook, which applies a test ClusterIssuer, comes back False
InstallFailureIgnored(kind, step) ==
    kind = "certmanager" /\ step = "apply_manifest"

\* _status once install() is past its enabled test
StatusEnteringInstall(kind, old) ==
    IF InstallWritesStatus(kind) THEN "INSTALLING" ELSE old

\* install(): the enabled test and the write of INSTALLING
install_begin(service_name) ==
    /\ Idle
    /\ service_name \in DOMAIN instances
    /\ LET self == instances[service_name]
       IN  IF InstallChecksEnabled(self.kind) /\ ~self.enabled
           THEN /\ pc' = "done" /\ result' = TRUE /\ order' = <<>>
                /\ status' = status
           ELSE /\ pc' = "steps" /\ result' = "none"
                /\ order' = install_steps(self)
                /\ status' = [status EXCEPT ![service_name] =
                                 StatusEnteringInstall(self.kind, @)]
    /\ op' = "install"
    /\ targets' = <<service_name>>
    /\ idx' = 0
    /\ success' = TRUE
    /\ calls' = <<>>
    /\ UNCHANGED <<instances, hashOrder, resolved, timeout, elapsed>>
    /\ UNCHANGED <<step_index, wait_index>>

\* install(): the next step; a step that returns False or raises ends the
\* call with False (every install() catches Exception)
install_step ==
    /\ op = "install" /\ pc = "steps" /\ idx < Len(order)
    /\ LET service_name == targets[1]
           self == instances[service_name]
       IN  \E out \in StepOutcomes :
             /\ calls' = Append(calls, Call(order[idx + 1], service_name, out))
             /\ IF out = "true" \/ InstallFailureIgnored(self.kind, order[idx + 1])
                THEN /\ idx' = idx + 1
                     /\ UNCHANGED <<pc, result, status>>
                ELSE /\ pc' = "done" /\ result' = FALSE /\ idx' = idx
                     /\ status' = [status EXCEPT ![service_name] =
                                      StatusAfterInstall(self.kind, @, FALSE)]
    /\ UNCHANGED <<instances, hashOrder, op, targets, resolved, order, success,
                   timeout, elapsed>>
    /\ UNCHANGED <<step_index, wait_index>>

\* install(): every step succeeded
install_return ==
    /\ op = "install" /\ pc = "steps" /\ idx = Len(order)
    /\ pc' = "done"
    /\ result' = TRUE
    /\ status' = [status EXCEPT ![targets[1]] =
                     StatusAfterInstall(instances[targets[1]].kind, @, TRUE)]
    /\ UNCHANGED <<instances, hashOrder, op, targets, resolved, order, idx,
                   success, calls, timeout, elapsed>>
    /\ UNCHANGED <<step_index, wait_index>>

\* uninstall() writes _status: only BaseService.uninstall does
UninstallWritesStatus(kind) == kind = "base"

\* uninstall() catches Exception: BaseService.uninstall and
\* IstioService.uninstall do, OpenEBSService.uninstall and
\* ManifestService.uninstall do not
UninstallCatches(kind) == kind \in {"base", "istio", "certmanager"}

\* the steps uninstall() runs, in the order it runs them
uninstall_steps(self) ==
    CASE self.kind = "manifest" -> Reverse(install_steps(self))
      [] self.kind = "istio" -> <<"istio-ingressgateway", "istiod", "istio-base">>
      [] self.kind = "openebs" -> <<"_remove_storage_classes", "helm.uninstall">>
      [] OTHER -> <<"helm.uninstall">>

\* a False from the step does not change what uninstall() returns:
\* IstioService.uninstall and CertManagerService.uninstall only print a
\* warning, OpenEBSService.uninstall drops the result of
\* _remove_storage_classes
FailureIgnored(kind, step) ==
    \/ kind \in {"istio", "certmanager"}
    \/ (kind = "openebs" /\ step = "_remove_storage_classes")

\* uninstall(): the write of UNINSTALLING, where there is one
uninstall_begin(service_name) ==
    /\ Idle
    /\ service_name \in DOMAIN instances
    /\ LET self == instances[service_name]
       IN  /\ order' = uninstall_steps(self)
           /\ status' = [status EXCEPT ![service_name] =
                            IF UninstallWritesStatus(self.kind)
                            THEN "UNINSTALLING" ELSE @]
    /\ op' = "uninstall"
    /\ pc' = "steps"
    /\ result' = "none"
    /\ targets' = <<service_name>>
    /\ idx' = 0
    /\ success' = TRUE
    /\ calls' = <<>>
    /\ UNCHANGED <<instances, hashOrder, resolved, timeout, elapsed>>
    /\ UNCHANGED <<step_index, wait_index>>

\* uninstall(): the next step
uninstall_step ==
    /\ op = "uninstall" /\ pc = "steps" /\ idx < Len(order)
    /\ LET service_name == targets[1]
           self == instances[service_name]
           step == order[idx + 1]
       IN  \E out \in StepOutcomes :
             /\ calls' = Append(calls, Call(step, service_name, out))
             /\ IF out = "raise"
                THEN /\ IF UninstallCatches(self.kind)
                        THEN pc' = "done" /\ result' = FALSE
                        ELSE pc' = "raised" /\ result' = result
                     /\ status' = [status EXCEPT ![service_name] =
                                      IF UninstallWritesStatus(self.kind)
                                      THEN "FAILED" ELSE @]
                     /\ UNCHANGED <<idx, success>>
                ELSE /\ idx' = idx + 1
                     /\ success' = (success /\ (out = "true"
                                                \/ FailureIgnored(self.kind, step)))
                     /\ UNCHANGED <<pc, result, status>>
    /\ UNCHANGED <<instances, hashOrder, op, targets, resolved, order, timeout,
                   elapsed>>
    /\ UNCHANGED <<step_index, wait_index>>

\* uninstall(): the steps are done
uninstall_return ==
    /\ op = "uninstall" /\ pc = "steps" /\ idx = Len(order)
    /\ pc' = "done"
    /\ result' = success
    /\ status' = [status EXCEPT ![targets[1]] =
                     IF UninstallWritesStatus(instances[targets[1]].kind)
                     THEN (IF success THEN "NOT_INSTALLED" ELSE "FAILED")
                     ELSE @]
    /\ UNCHANGED <<instances, hashOrder, op, targets, resolved, order, idx,
                   success, calls, timeout, elapsed>>
    /\ UNCHANGED <<step_index, wait_index>>

\* upgrade(), which no class overrides: the enabled test and the write of
\* UPGRADING
upgrade_begin(service_name) ==
    /\ Idle
    /\ service_name \in DOMAIN instances
    /\ IF ~instances[service_name].enabled
       THEN /\ pc' = "done" /\ result' = TRUE /\ order' = <<>>
            /\ status' = status
       ELSE /\ pc' = "steps" /\ result' = "none"
            /\ order' = <<"upgrade">>
            /\ status' = [status EXCEPT ![service_name] = "UPGRADING"]
    /\ op' = "upgrade"
    /\ targets' = <<service_name>>
    /\ idx' = 0
    /\ success' = TRUE
    /\ calls' = <<>>
    /\ UNCHANGED <<instances, hashOrder, resolved, timeout, elapsed>>
    /\ UNCHANGED <<step_index, wait_index>>

\* upgrade(): helm.upgrade or _upgrade_custom, and the return
upgrade_step ==
    /\ op = "upgrade" /\ pc = "steps"
    /\ \E out \in StepOutcomes :
         /\ calls' = Append(calls, Call(order[1], targets[1], out))
         /\ result' = (out = "true")
         /\ status' = [status EXCEPT ![targets[1]] =
                          IF out = "true" THEN "INSTALLED" ELSE "FAILED"]
    /\ pc' = "done"
    /\ idx' = 1
    /\ UNCHANGED <<instances, hashOrder, op, targets, resolved, order, success,
                   timeout, elapsed>>
    /\ UNCHANGED <<step_index, wait_index>>

\* what the collaborator probe of is_installed() can answer
ProbeOutcomes(kind) == IF kind = "manifest" THEN {"false"} ELSE StepOutcomes

\* an is_installed() that answers from the instance's own status
is_installed_from_status(probe, self_status) == self_status = "INSTALLED"

\* BaseService.is_installed: the probe's answer, False when it raised
is_installed_answer(probe, self_status) == probe = "true"

\* is_installed()
is_installed(service_name) ==
    /\ Idle
    /\ service_name \in DOMAIN instances
    /\ \E probe \in ProbeOutcomes(instances[service_name].kind) :
         /\ calls' = <<Call("probe", service_name, probe)>>
         /\ result' = is_installed_answer(probe, status[service_name])
    /\ op' = "is_installed"
    /\ pc' = "done"
    /\ targets' = <<service_name>>
    /\ order' = <<>>
    /\ idx' = 0
    /\ success' = TRUE
    /\ UNCHANGED <<instances, hashOrder, status, resolved, timeout, elapsed>>
    /\ UNCHANGED <<step_index, wait_index>>

\* what get_health() can do: IstioService.get_health catches Exception, the
\* others let a collaborator's exception pass
HealthOutcomes(kind) ==
    {"HEALTHY", "UNHEALTHY", "DEGRADED", "UNKNOWN"}
        \cup (IF kind = "istio" THEN {} ELSE {"raise"})

\* wait_for_ready(t), lines 268-269
wait_for_ready_begin(service_name, t) ==
    /\ Idle
    /\ service_name \in DOMAIN instances
    /\ op' = "wait_for_ready"
    /\ pc' = "steps"
    /\ result' = "none"
    /\ targets' = <<service_name>>
    /\ timeout' = t
    /\ elapsed' = 0
    /\ order' = <<>>
    /\ idx' = 0
    /\ success' = TRUE
    /\ calls' = <<>>
    /\ UNCHANGED <<instances, hashOrder, status, resolved>>
    /\ UNCHANGED <<step_index, wait_index>>

\* wait_for_ready, lines 271-274: one pass of the loop
wait_for_ready_poll ==
    /\ op = "wait_for_ready" /\ pc = "steps" /\ elapsed < timeout
    /\ \E health \in HealthOutcomes(instances[targets[1]].kind) :
         /\ calls' = Append(calls, Call("get_health", targets[1], health))
         /\ IF health = "raise"
            THEN /\ pc' = "raised" /\ result' = result /\ elapsed' = elapsed
            ELSE IF health = "HEALTHY"
            THEN /\ pc' = "done" /\ result' = TRUE /\ elapsed' = elapsed
            ELSE /\ elapsed' = elapsed + 1
                 /\ UNCHANGED <<pc, result>>
    /\ idx' = idx + 1
    /\ UNCHANGED <<instances, hashOrder, status, op, targets, resolved, order,
                   success, timeout>>
    /\ UNCHANGED <<step_index, wait_index>>

\* wait_for_ready, line 276
wait_for_ready_return ==
    /\ op = "wait_for_ready" /\ pc = "steps" /\ elapsed >= timeout
    /\ pc' = "done"
    /\ result' = FALSE
    /\ UNCHANGED <<instances, hashOrder, status, op, targets, resolved, order,
                   idx, success, calls, timeout, elapsed>>
    /\ UNCHANGED <<step_index, wait_index>>

InitService ==
    /\ instances = <<>>
    /\ hashOrder = BatchHashOrder
    /\ status = <<>>
    /\ op = "none"
    /\ pc = "idle"
    /\ targets = <<>>
    /\ resolved = NoResolution
    /\ order = <<>>
    /\ idx = 0
    /\ success = TRUE
    /\ result = "none"
    /\ calls = <<>>
    /\ timeout = 0
    /\ elapsed = 0
    /\ step_index = 0
    /\ wait_index = 0

NextService ==
    \/ \E n \in ServiceIds, c \in Configs : create_instance(n, c)
    \/ \E n \in ServiceIds : install_begin(n)
    \/ install_step
    \/ install_return
    \/ \E n \in ServiceIds : uninstall_begin(n)
    \/ uninstall_step
    \/ uninstall_return
    \/ \E n \in ServiceIds : upgrade_begin(n)
    \/ upgrade_step
    \/ \E n \in ServiceIds : is_installed(n)
    \/ \E n \in ServiceIds, t \in 0..MaxTimeout : wait_for_ready_begin(n, t)
    \/ wait_for_ready_poll
    \/ wait_for_ready_return

SpecService == InitService /\ [][NextService]_vars

\* ------------------------------------------------- claims: the lifecycle

\* the instance the call in progress, or the last call, was made on
Self == targets[1]

\* the call in progress, or the last call, is fn on a registered instance
InCall(fn) == op = fn /\ Self \in DOMAIN instances

Failed(cs) == {i \in 1..Len(cs) : cs[i].ret # "true"}

\* C11: creating the instance of an id that already has one leaves the
\* status of that instance as it was (INSTALLED stays INSTALLED) and the
\* registry with the same ids, one instance each.
C11_ReRegistrationKeepsStatus ==
    [][\A n \in DOMAIN instances :
          (op' = "create_instance" /\ targets'[1] = n)
              => /\ DOMAIN instances' = DOMAIN instances
                 /\ status'[n] = status[n]]_vars

\* an id was registered again while its instance was INSTALLED
C11_Witness ==
    /\ op = "create_instance" /\ pc = "done"
    /\ status[Self] = "INSTALLED"

\* C12: after create_instance returned the instance of an id, the config of
\* that instance is the config passed in this call, also when the id had an
\* instance already.
C12_ReRegistrationReplacesConfig ==
    (op = "create_instance" /\ pc = "done")
        => instances[Self].enabled = targets[2].enabled

\* the status changes section 4.3 of the specification allows
AllowedTransitions ==
    {<<"NOT_INSTALLED", "INSTALLING">>, <<"INSTALLING", "INSTALLED">>,
     <<"INSTALLING", "FAILED">>, <<"INSTALLED", "UPGRADING">>,
     <<"UPGRADING", "INSTALLED">>, <<"UPGRADING", "FAILED">>,
     <<"UNINSTALLING", "NOT_INSTALLED">>, <<"UNINSTALLING", "FAILED">>}
        \cup {<<s, "UNINSTALLING">> : s \in ServiceStatus}

\* C13: every change of an instance's status under install, upgrade and
\* uninstall calls is one of the allowed transitions; INSTALLING is entered
\* only from NOT_INSTALLED and UPGRADING only from INSTALLED.
C13_OnlyAllowedTransitions ==
    [][\A n \in DOMAIN status :
          (n \in DOMAIN status' /\ status'[n] # status[n])
              => <<status[n], status'[n]>> \in AllowedTransitions]_vars

\* C14: install() of an enabled service runs its steps in declared order and
\* none after the first that fails; when it has returned, the status is
\* FAILED and the result False if a step failed, INSTALLED and True if not.
C14_InstallStepsThenStatus ==
    (InCall("install") /\ instances[Self].enabled)
        => /\ IsPrefix([i \in 1..Len(calls) |-> calls[i].fn],
                       install_steps(instances[Self]))
           /\ Failed(calls) \subseteq {Len(calls)}
           /\ pc = "done"
                 => IF Failed(calls) # {}
                    THEN status[Self] = "FAILED" /\ result = FALSE
                    ELSE status[Self] = "INSTALLED" /\ result = TRUE

\* C15: in every step of install() on a disabled service no install step
\* has run, the status is as it was, and the call, once over, returned True.
C15_DisabledInstallIsNoOp ==
    [][\A n \in DOMAIN instances :
          (op' = "install" /\ targets' = <<n>> /\ ~instances[n].enabled)
              => /\ calls' = <<>>
                 /\ status' = status
                 /\ pc' = "done" => result' = TRUE]_vars

\* C16: when uninstall() has returned, the status is NOT_INSTALLED if every
\* uninstall step succeeded and FAILED if one did not.
C16_StatusAfterUninstall ==
    (InCall("uninstall") /\ pc = "done")
        => status[Self] = IF Failed(calls) = {} THEN "NOT_INSTALLED" ELSE "FAILED"

\* the status a lifecycle call shows while it runs
Transient(fn) ==
    CASE fn = "install" -> "INSTALLING"
      [] fn = "uninstall" -> "UNINSTALLING"
      [] fn = "upgrade" -> "UPGRADING"

\* C17: between the start of the first step of install(), uninstall() or
\* upgrade() and its return, the status reads INSTALLING, UNINSTALLING or
\* UPGRADING.
C17_TransientStatusVisible ==
    (op \in {"install", "uninstall", "upgrade"} /\ pc = "steps")
        => status[Self] = Transient(op)

\* C18: is_installed() leaves every status as it was, and what it returns is
\* what the collaborator probe answered, whatever the status of the instance.
C18_IsInstalledIgnoresStatus ==
    [][op' = "is_installed"
          => /\ status' = status
             /\ result' = (calls'[1].ret = "true")]_vars

\* is_installed() answered False for an instance whose status is INSTALLED
C18_Witness ==
    /\ InCall("is_installed") /\ pc = "done"
    /\ status[Self] = "INSTALLED"
    /\ result = FALSE

\* C19: wait_for_ready always ends by returning a boolean, True exactly when
\* a poll of get_health() reported HEALTHY.
C19_WaitForReadyReturnsBoolean ==
    (InCall("wait_for_ready") /\ pc \in {"done", "raised"})
        => /\ pc = "done"
           /\ result = TRUE <=> CalledWith("get_health", Self, "HEALTHY")

\* install_services gave up because a service failed to install or to get
\* ready
BatchAborted ==
    /\ op = "install" /\ pc = "done" /\ result = FALSE
    /\ ~dependency_error(resolved)

C27_BatchCallsNeverRaise ==
    (op \in {"install", "uninstall"})
        => /\ pc # "raised"
           /\ \A i \in 1..Len(calls) :
                 calls[i].ret = "raise"
                     => i = Len(calls) /\ pc = "done" /\ result = FALSE

\* an uninstall() raised while services were left in the order
C27_Witness ==
    /\ op = "uninstall" /\ pc = "done" /\ result = FALSE
    /\ calls # <<>>
    /\ calls[Len(calls)].ret = "raise"
    /\ Len(calls) < Len(order)

\* C28: when uninstall_services has returned without a dependency error,
\* uninstall() was invoked on every service of the dependency closure of
\* its targets, whatever their enabled flags and is_installed() answers and
\* whoever else depends on them.
C28_UninstallsWholeClosure ==
    (op = "uninstall" /\ pc = "done" /\ ~dependency_error(resolved))
        => \A n \in TargetClosure : Called("uninstall", n)

\* the services the batch loop has gone through
Processed == Range(SubSeq(order, 1, idx))

\* C29: the install order is the dependency closure of the targets, whatever
\* the enabled flags; a disabled service gets no call, an enabled one the
\* batch went through was asked is_installed() and installed unless it
\* answered True; a closure that names an unregistered service fails the
\* batch before any call.
C29_ClosureIgnoresEnabled ==
    (op = "install")
        => /\ ~dependency_error(resolved) => Range(order) = TargetClosure
           /\ ~AllRegistered => (pc = "done" /\ result = FALSE /\ calls = <<>>)
           /\ \A n \in DOMAIN instances \cap Range(order) :
                 /\ ~instances[n].enabled => n \notin Range(SvcSeq(calls))
                 /\ (instances[n].enabled /\ n \in Processed)
                       => /\ Called("is_installed", n)
                          /\ CalledWith("is_installed", n, "false")
                                => Called("install", n)

\* a disabled target was skipped and its dependency installed
C29_Witness ==
    /\ op = "install" /\ pc = "done" /\ result = TRUE
    /\ Len(targets) = 1
    /\ ~instances[targets[1]].enabled
    /\ \E d \in instances[targets[1]].deps : CalledWith("install", d, "true")

\* ------------------------------------------ claims: the lifecycle, again

\* the call in progress has ended, by a return or by an exception
Ended == pc \in {"done", "raised"}

\* C23: uninstall() of a manifest service attempts every declared step, in
\* the reverse of the declared order, also after a step failed, and returns
\* True exactly when every step succeeded.
C23_ManifestUninstallBestEffort ==
    (InCall("uninstall") /\ instances[Self].kind = "manifest")
        => /\ IsPrefix([i \in 1..Len(calls) |-> calls[i].fn],
                       Reverse(install_steps(instances[Self])))
           /\ Ended => /\ Len(calls) = instances[Self].nsteps
                       /\ pc = "done"
                       /\ result = (Failed(calls) = {})

\* the calls of install() that go to the manifest-apply or package-manager
\* collaborator: the chart installation, the manifest applied by
\* _test_webhook, and the steps of a manifest service
CollaboratorSteps ==
    {"_install_helm_chart", "apply_manifest", "_install_base",
     "_install_istiod", "_install_gateway"}
        \cup {ToString(i) : i \in 1..MaxSteps}

\* C25: when install() has returned and one of its manifest-apply or
\* package-manager calls reported failure, install() returned False.
C25_CollaboratorFailurePropagates ==
    (InCall("install") /\ pc = "done"
        /\ \E i \in Failed(calls) : calls[i].fn \in CollaboratorSteps)
        => result = FALSE

TransientStatuses == {"INSTALLING", "UPGRADING", "UNINSTALLING"}

\* C30: whenever no call is in progress, in particular after install(),
\* upgrade() or uninstall() returned, however their collaborators behaved,
\* no instance has the status INSTALLING, UPGRADING or UNINSTALLING.
C30_NoTransientStatusLeft ==
    Idle => \A n \in DOMAIN status : status[n] \notin TransientStatuses

\* a BaseService operation returned after a collaborator raised
C30_Witness ==
    /\ op \in {"install", "upgrade", "uninstall"} /\ pc = "done"
    /\ instances[Self].kind = "base"
    /\ calls # <<>>
    /\ calls[Len(calls)].ret = "raise"
    /\ status[Self] = "FAILED"

\* ------------------------------------------------ manifest-driven services
\* install_services on a registry that holds one ManifestService: install()
\* runs the install steps of the service definition, each a primary action
\* followed by its wait_for conditions, then the registry waits for health.

MaxWaits == 2      \* most wait_for entries one install step declares

\* WaitForSpec, manifest_def.py: "deployment" and "custom_resource" stand for
\* entries that name everything _wait_for_condition asks of that type, "other"
\* for any other entry; timeout is `wait.timeout or 300` in sleep intervals
WaitForSpecs ==
    [type : {"deployment", "other"}, timeout : {MaxTimeout}] \cup
    [type : {"custom_resource"}, timeout : 1..MaxTimeout]

\* InstallStep, manifest_def.py: complete says that the step names what its
\* type needs (chart, release and namespace for helm, path for manifest),
\* repo that a repository name and url are given
InstallSteps ==
    {s \in [step_type : {"helm", "manifest", "unknown"}, complete : BOOLEAN,
            repo : BOOLEAN, wait_for : SeqsUpTo(WaitForSpecs, MaxWaits)] :
        /\ s.step_type # "helm" => ~s.repo
        /\ s.step_type = "unknown" => s.complete}

\* ServiceManifest: the install steps and whether validations are declared
ServiceManifests ==
    [install : {<<>>} \cup {<<s>> : s \in InstallSteps}, validations : BOOLEAN]

\* ManifestService.__init__: a service built from its definition
ManifestService(config, definition) ==
    [deps |-> {}, enabled |-> config.enabled, kind |-> "manifest",
     nsteps |-> Len(definition.install), definition |-> definition]

\* a helm step that goes through all three calls whatever they answer
execute_helm_step_no_early_return(s, n, added, updated, installed) ==
    IF ~s.complete THEN <<>>
    ELSE LET c1 == IF s.repo THEN <<Call("helm.add_repo", n, added)>> ELSE <<>>
         IN  c1 \o <<Call("helm.update_repos", n, updated),
                     Call("helm.install", n, installed)>>

\* _execute_helm_step, lines 146-164: the calls made to the HelmClient when
\* they answer added, updated and installed
execute_helm_step(s, n, added, updated, installed) ==
    IF ~s.complete THEN <<>>
    ELSE LET c1 == IF s.repo THEN <<Call("helm.add_repo", n, added)>> ELSE <<>>
             c2 == Append(c1, Call("helm.update_repos", n, updated))
             c3 == Append(c2, Call("helm.install", n, installed))
         IN  IF s.repo /\ added # "true" THEN c1
             ELSE IF updated # "true" THEN c2
             ELSE c3

\* _execute_manifest_step, lines 134-140: render_manifest (which raises when
\* the template is missing), then k8s.apply_manifest
execute_manifest_step(s, n, rendered, applied) ==
    IF ~s.complete THEN <<>>
    ELSE IF rendered # "true" THEN <<Call("render_manifest", n, "raise")>>
    ELSE <<Call("render_manifest", n, "true"),
           Call("k8s.apply_manifest", n, applied)>>

\* _execute_step, lines 126-131: the collaborator calls of the primary action
execute_step(s, n, o1, o2, o3) ==
    CASE s.step_type = "helm" -> execute_helm_step(s, n, o1, o2, o3)
      [] s.step_type = "manifest" -> execute_manifest_step(s, n, o1, o2)
      [] OTHER -> <<>>

\* where the step goes after the calls cs of its primary action: on to
\* _handle_wait_conditions ("waits"), or it returns True or False at once; an
\* exception of a call ends install() in its except clause with False
after_primary(s, cs) ==
    CASE s.step_type = "helm" ->
            IF s.complete /\ Failed(cs) = {} THEN "waits" ELSE "false"
      [] s.step_type = "manifest" ->
            IF ~s.complete THEN "true"
            ELSE IF Failed(cs) = {} THEN "waits" ELSE "false"
      [] OTHER -> "true"

\* a wait condition whose failure does not end the step
condition_failure_ignored(out) == FALSE

\* _handle_wait_conditions line 169: `if not self._wait_for_condition(wait)`
condition_failed(out) == out # "true"

\* a clock that stands still
clock_stopped(e) == e

\* time.sleep(5) of _wait_for_condition and time.sleep(10) of wait_for_ready:
\* time has moved on by one interval when the loop tests its deadline again
after_sleep(e) == e + 1

\* a health answer that does not look at the declared validations
get_health_any(self) == {"UNKNOWN", "HEALTHY", "DEGRADED", "raise"}

\* ManifestService.get_health, lines 107-111: UNKNOWN without validations,
\* else what validate() says, or the exception that leaves it
get_health(self) ==
    IF ~self.definition.validations THEN {"UNKNOWN"}
    ELSE {"HEALTHY", "DEGRADED", "raise"}

\* wait_for_ready(timeout=600) of install_services, in sleep intervals
ReadyTimeout == MaxTimeout

\* the entry of the log that stands for the j-th wait_for condition of a step
WaitFn(j) == "wait_for." \o ToString(j)

\* the log with c as the latest answer of the poll loop that is running
PollLog(cs, c) ==
    IF cs # <<>> /\ cs[Len(cs)].fn = c.fn /\ cs[Len(cs)].svc = c.svc
    THEN [cs EXCEPT ![Len(cs)] = c]
    ELSE Append(cs, c)

CurrentService == instances[order[idx + 1]]

CurrentStep == CurrentService.definition.install[step_index + 1]

\* install_services, lines 148-166: the next service of install_order, up to
\* the call of its install()
install_services_next ==
    /\ pc = "loop" /\ op = "install" /\ idx < Len(order)
    /\ LET service_name == order[idx + 1]
           service == instances[service_name]
       IN  IF ~service.enabled
           THEN /\ idx' = idx + 1
                /\ UNCHANGED <<pc, calls, step_index>>
           ELSE \E installed \in IsInstalledAnswers(service.kind) :
                  /\ calls' = Append(calls, Call("is_installed", service_name,
                                                 Bool(installed)))
                  /\ IF already_installed(installed)
                     THEN /\ idx' = idx + 1
                          /\ UNCHANGED <<pc, step_index>>
                     ELSE /\ pc' = "install"
                          /\ step_index' = 0
                          /\ idx' = idx
    /\ UNCHANGED <<instances, hashOrder, status, op, targets, resolved, order,
                   success, result, timeout, elapsed, wait_index>>

\* ManifestService.install lines 73-75 with _execute_step: the primary action
\* of the next install step
install_execute_step ==
    /\ pc = "install"
    /\ step_index < Len(CurrentService.definition.install)
    /\ \E o1 \in StepOutcomes, o2 \in StepOutcomes, o3 \in StepOutcomes :
         LET n == order[idx + 1]
             cs == execute_step(CurrentStep, n, o1, o2, o3)
             next == after_primary(CurrentStep, cs)
         IN  CASE next = "waits" ->
                    /\ calls' = calls \o cs
                    /\ pc' = "waits"
                    /\ wait_index' = 0
                    /\ UNCHANGED <<step_index, result>>
               [] next = "true" ->
                    /\ calls' = calls \o cs
                    /\ step_index' = step_index + 1
                    /\ UNCHANGED <<pc, wait_index, result>>
               [] OTHER ->
                    /\ calls' = Append(calls \o cs, Call("install", n, "false"))
                    /\ pc' = "done"
                    /\ result' = FALSE
                    /\ UNCHANGED <<step_index, wait_index>>
    /\ UNCHANGED <<instances, hashOrder, status, op, targets, resolved, order,
                   idx, success, timeout, elapsed>>

\* _handle_wait_conditions with _wait_for_condition, lines 168-178 and 195:
\* the next condition of the step; a deployment is left to
\* k8s.wait_for_deployment, a custom resource starts its poll loop, any other
\* entry counts as met
wait_for_condition ==
    /\ pc = "waits"
    /\ wait_index < Len(CurrentStep.wait_for)
    /\ LET n == order[idx + 1]
           w == CurrentStep.wait_for[wait_index + 1]
       IN  CASE w.type = "deployment" ->
                  \E out \in StepOutcomes :
                    LET ret == IF out = "false" THEN "timeout" ELSE out
                        c1 == Append(calls, Call(WaitFn(wait_index + 1), n, ret))
                    IN  IF condition_failed(out)
                        THEN /\ calls' = Append(c1, Call("install", n, "false"))
                             /\ pc' = "done"
                             /\ result' = FALSE
                             /\ UNCHANGED <<wait_index, timeout, elapsed>>
                        ELSE /\ calls' = c1
                             /\ wait_index' = wait_index + 1
                             /\ UNCHANGED <<pc, result, timeout, elapsed>>
             [] w.type = "custom_resource" ->
                  /\ pc' = "poll"
                  /\ timeout' = w.timeout
                  /\ elapsed' = 0
                  /\ UNCHANGED <<calls, wait_index, result>>
             [] OTHER ->
                  /\ wait_index' = wait_index + 1
                  /\ UNCHANGED <<calls, pc, result, timeout, elapsed>>
    /\ UNCHANGED <<instances, hashOrder, status, op, targets, resolved, order,
                   idx, success, step_index>>

\* _wait_for_condition, lines 179-192: one round of the poll loop; the
\* resource meets the condition, does not meet it yet, or the lookup raises,
\* which the loop swallows
wait_for_condition_poll ==
    /\ pc = "poll" /\ elapsed < timeout
    /\ \E answer \in {"true", "pending", "raise"} :
         LET n == order[idx + 1]
             c == Call(WaitFn(wait_index + 1), n,
                       IF answer = "raise" THEN "error" ELSE answer)
         IN  /\ calls' = PollLog(calls, c)
             /\ IF answer = "true"
                THEN /\ pc' = "waits"
                     /\ wait_index' = wait_index + 1
                     /\ elapsed' = elapsed
                ELSE /\ elapsed' = after_sleep(elapsed)
                     /\ UNCHANGED <<pc, wait_index>>
    /\ UNCHANGED <<instances, hashOrder, status, op, targets, resolved, order,
                   idx, success, result, timeout, step_index>>

\* _wait_for_condition, lines 193-194, then _handle_wait_conditions line 170
\* and install line 75: the deadline has passed
wait_for_condition_timeout ==
    /\ pc = "poll" /\ elapsed >= timeout
    /\ LET n == order[idx + 1]
           c1 == PollLog(calls, Call(WaitFn(wait_index + 1), n, "timeout"))
       IN  IF condition_failed("false")
           THEN /\ calls' = Append(c1, Call("install", n, "false"))
                /\ pc' = "done"
                /\ result' = FALSE
                /\ UNCHANGED wait_index
           ELSE /\ calls' = c1
                /\ pc' = "waits"
                /\ wait_index' = wait_index + 1
                /\ UNCHANGED result
    /\ UNCHANGED <<instances, hashOrder, status, op, targets, resolved, order,
                   idx, success, timeout, elapsed, step_index>>

\* _handle_wait_conditions line 171: every condition of the step was met
handle_wait_conditions_return ==
    /\ pc = "waits"
    /\ wait_index = Len(CurrentStep.wait_for)
    /\ pc' = "install"
    /\ step_index' = step_index + 1
    /\ UNCHANGED <<instances, hashOrder, status, op, targets, resolved, order,
                   idx, success, result, calls, timeout, elapsed, wait_index>>

\* ManifestService.install line 76, then install_services line 172: install()
\* returned True and wait_for_ready(600) starts
install_steps_return ==
    /\ pc = "install"
    /\ step_index = Len(CurrentService.definition.install)
    /\ calls' = Append(calls, Call("install", order[idx + 1], "true"))
    /\ pc' = "ready"
    /\ timeout' = ReadyTimeout
    /\ elapsed' = 0
    /\ UNCHANGED <<instances, hashOrder, status, op, targets, resolved, order,
                   idx, success, result, step_index, wait_index>>

\* wait_for_ready, lines 271-274, inside install_services: one round of its
\* loop; an exception of get_health() ends the batch in the except clause
wait_for_ready_round ==
    /\ pc = "ready" /\ elapsed < timeout
    /\ \E health \in get_health(CurrentService) :
         LET n == order[idx + 1]
             c1 == PollLog(calls, Call("get_health", n, health))
         IN  CASE health = "HEALTHY" ->
                    /\ calls' = Append(c1, Call("wait_for_ready", n, "true"))
                    /\ pc' = "loop"
                    /\ idx' = idx + 1
                    /\ UNCHANGED <<result, elapsed>>
               [] health = "raise" ->
                    /\ calls' = Append(c1, Call("wait_for_ready", n, "raise"))
                    /\ pc' = "done"
                    /\ result' = FALSE
                    /\ UNCHANGED <<idx, elapsed>>
               [] OTHER ->
                    /\ calls' = c1
                    /\ elapsed' = after_sleep(elapsed)
                    /\ UNCHANGED <<pc, idx, result>>
    /\ UNCHANGED <<instances, hashOrder, status, op, targets, resolved, order,
                   success, timeout, step_index, wait_index>>

\* wait_for_ready line 276, then install_services lines 172-175
wait_for_ready_timeout ==
    /\ pc = "ready" /\ elapsed >= timeout
    /\ calls' = Append(calls, Call("wait_for_ready", order[idx + 1], "false"))
    /\ pc' = "done"
    /\ result' = FALSE
    /\ UNCHANGED <<instances, hashOrder, status, op, targets, resolved, order,
                   idx, success, timeout, elapsed, step_index, wait_index>>

InitManifest ==
    /\ \E c \in Configs, d \in ServiceManifests :
         instances = [n \in ServiceIds |-> ManifestService(c, d)]
    /\ hashOrder = BatchHashOrder
    /\ status = [n \in ServiceIds |-> "NOT_INSTALLED"]
    /\ op = "none"
    /\ pc = "idle"
    /\ targets = <<>>
    /\ resolved = NoResolution
    /\ order = <<>>
    /\ idx = 0
    /\ success = TRUE
    /\ result = "none"
    /\ calls = <<>>
    /\ timeout = 0
    /\ elapsed = 0
    /\ step_index = 0
    /\ wait_index = 0

NextManifest ==
    \/ \E n \in ServiceIds : install_services_begin(<<n>>)
    \/ install_services_next
    \/ install_execute_step
    \/ wait_for_condition
    \/ wait_for_condition_poll
    \/ wait_for_condition_timeout
    \/ handle_wait_conditions_return
    \/ install_steps_return
    \/ wait_for_ready_round
    \/ wait_for_ready_timeout
    \/ install_services_return

\* the process that runs install_services keeps running: a step that can be
\* taken is taken
SpecManifest == InitManifest /\ [][NextManifest]_vars /\ WF_vars(NextManifest)

\* ----------------------------------------- claims: manifest-driven services

Manifests == {n \in DOMAIN instances : instances[n].kind = "manifest"}

StepsOf(n) == instances[n].definition.install

CallsOf(n, fns) == SelectSeq(calls, LAMBDA c : c.svc = n /\ c.fn \in fns)

HelmFns == {"helm.add_repo", "helm.update_repos", "helm.install"}

WaitFns == {WaitFn(j) : j \in 1..MaxWaits + 1}

\* C24: a helm step calls the HelmClient in the order add_repo (only with a
\* repository name and url), update_repos, install; a call is made only when
\* every earlier one returned True, the first failure fails the step (and
\* with it install()), and a step without chart, release or namespace fails
\* with no call at all.
C24_HelmCallOrder ==
    \A n \in Manifests :
      LET H == CallsOf(n, HelmFns)
      IN  IF StepsOf(n) = <<>> \/ StepsOf(n)[1].step_type # "helm"
          THEN H = <<>>
          ELSE LET s == StepsOf(n)[1]
                   expected == IF s.repo
                               THEN <<"helm.add_repo", "helm.update_repos",
                                      "helm.install">>
                               ELSE <<"helm.update_repos", "helm.install">>
               IN  /\ Len(H) <= Len(expected)
                   /\ \A i \in 1..Len(H) :
                        /\ H[i].fn = expected[i]
                        /\ H[i].ret # "true" => i = Len(H)
                   /\ Failed(H) # {} =>
                        /\ pc = "done" /\ result = FALSE
                        /\ CalledWith("install", n, "false")
                   /\ (pc \in {"waits", "poll", "ready"}
                       \/ CalledWith("install", n, "true")) =>
                        /\ s.complete
                        /\ Len(H) = Len(expected)
                        /\ Failed(H) = {}
                   /\ ~s.complete =>
                        /\ H = <<>>
                        /\ (pc = "done" /\ instances[n].enabled) =>
                              CalledWith("install", n, "false")

\* a helm step with a repository whose update_repos failed after add_repo
C24_Witness ==
    \E n \in Manifests :
      /\ StepsOf(n) # <<>> /\ StepsOf(n)[1].repo
      /\ CallsOf(n, HelmFns) = <<Call("helm.add_repo", n, "true"),
                                 Call("helm.update_repos", n, "false")>>
      /\ pc = "done" /\ result = FALSE

\* C22: the wait conditions of a step are evaluated only after its primary
\* action (apply_manifest or helm install) returned True, one at a time in
\* the declared order, each only when the ones before it were met; a
\* condition that times out fails the step and no later one is evaluated.
C22_WaitConditionsInOrder ==
    \A n \in Manifests :
      LET W == CallsOf(n, WaitFns)
      IN  W # <<>> =>
            LET s == StepsOf(n)[1]
                primary == IF s.step_type = "helm" THEN "helm.install"
                           ELSE "k8s.apply_manifest"
            IN  /\ \E i \in 1..Len(calls) :
                     /\ calls[i] = Call(primary, n, "true")
                     /\ \A k \in 1..Len(calls) : calls[k].fn \in WaitFns => i < k
                /\ \A i \in 1..Len(W) :
                     \E j \in 1..Len(s.wait_for) :
                       /\ W[i].fn = WaitFn(j)
                       /\ s.wait_for[j].type # "other"
                       /\ \A k \in 1..(j - 1) :
                            s.wait_for[k].type # "other" =>
                              \E h \in 1..(i - 1) : W[h] = Call(WaitFn(k), n, "true")
                /\ \A i \in 1..Len(W), h \in 1..Len(W) :
                     i # h => W[i].fn # W[h].fn
                /\ \A i \in 1..Len(W) :
                     W[i].ret \in {"timeout", "raise"} =>
                       /\ i = Len(W)
                       /\ pc = "done" /\ result = FALSE
                       /\ CalledWith("install", n, "false")

\* two conditions, the first of them timed out: the second has no entry
C22_Witness ==
    \E n \in Manifests :
      /\ StepsOf(n) # <<>>
      /\ Len(StepsOf(n)[1].wait_for) = 2
      /\ \A j \in 1..2 : StepsOf(n)[1].wait_for[j].type # "other"
      /\ CallsOf(n, WaitFns) = <<Call(WaitFn(1), n, "timeout")>>
      /\ pc = "done"

\* C26: a manifest service without validations answers UNKNOWN to every
\* get_health(), its wait_for_ready never returns True, and an
\* install_services that reaches it returns False, also when install()
\* returned True.
C26_NoValidationsNeverReady ==
    \A n \in Manifests :
      ~instances[n].definition.validations =>
        /\ \A i \in 1..Len(calls) :
             calls[i].svc = n =>
               /\ calls[i].fn = "get_health" => calls[i].ret = "UNKNOWN"
               /\ calls[i].fn = "wait_for_ready" => calls[i].ret = "false"
        /\ (op = "install" /\ pc = "done" /\ n \in Range(order)
            /\ instances[n].enabled) => result = FALSE

\* every step succeeded, install() returned True, the batch still failed
C26_Witness ==
    \E n \in Manifests :
      /\ ~instances[n].definition.validations
      /\ StepsOf(n) # <<>>
      /\ CalledWith("install", n, "true")
      /\ CalledWith("get_health", n, "UNKNOWN")
      /\ CalledWith("wait_for_ready", n, "false")
      /\ pc = "done" /\ result = FALSE

\* C21: every install_services call returns: the poll loops of the wait
\* conditions and of wait_for_ready end by success or by their timeout
\* whatever the collaborators answer, and a wait that timed out makes the
\* call return False.
C21_InstallServicesReturns ==
    /\ (op = "install") ~> (pc = "done")
    /\ [](\A i \in 1..Len(calls) :
            (calls[i].ret = "timeout"
             \/ calls[i] = Call("wait_for_ready", calls[i].svc, "false")) =>
               pc = "done" /\ result = FALSE)

\* a custom resource was met after a round that was not, and the readiness
\* wait of a service with validations then ran into its timeout
C21_Witness ==
    \E n \in Manifests :
      /\ instances[n].definition.validations
      /\ StepsOf(n) # <<>>
      /\ \E j \in 1..MaxWaits :
           /\ j <= Len(StepsOf(n)[1].wait_for)
           /\ StepsOf(n)[1].wait_for[j].type = "custom_resource"
           /\ CalledWith(WaitFn(j), n, "true")
      /\ CalledWith("get_health", n, "DEGRADED")
      /\ CalledWith("wait_for_ready", n, "false")
      /\ elapsed >= timeout
      /\ pc = "done" /\ result = FALSE

====
